---- MODULE Spec2Model ----
(***************************************************************************)
(* Model of the College_Rag retrieval engine.                              *)
(*                                                                         *)
(* Part 1 (specification Spec): the life cycle of the persisted snapshot   *)
(* (data/courses.json, data/faiss.index, data/metadata.pkl), of            *)
(* rag.vector_store.load_or_build, of the RAGPipeline object and of the    *)
(* queries served from it, interleaved with the ETL stage that rewrites    *)
(* the corpus file and with the passing of file-system time.               *)
(***************************************************************************)
EXTENDS Integers, Sequences, FiniteSets, TLC

\* ------------------------------------------------------------------ bounds
\* Highest value of the file-system clock (modification-time ticks).
MaxClock == 3
\* Number of distinct corpus contents the ETL stage writes.
MaxVer == 2

VARIABLES
    clock,      \* file-system time: the mtime a write gets
    corpus,     \* data/courses.json  : [exists, ver, mtime]
    faissFile,  \* data/faiss.index   : [exists, ver, mtime]
    metaFile,   \* data/metadata.pkl  : [exists, ver, mtime]
    plPc,       \* where the thread running RAGPipeline._load stands
    plCaller,   \* who called _load: "init" (__post_init__) or "rebuild"
    force_rebuild, \* RAGPipeline.force_rebuild
    plIndex,    \* RAGPipeline._index            (0 = None, else the content version)
    plMetadata, \* RAGPipeline._metadata         (0 = empty default)
    plKeyword,  \* RAGPipeline._keyword_searcher (0 = None, else the version of its _records)
    lobEntry,   \* the three files as they were when load_or_build was entered, and the call before
    lobRecords, \* load_or_build's local `records` (content version read)
    lobResult,  \* the pair load_or_build returned: <<index, metadata>>
    lobBuilds,  \* build_index and save_index calls completed by the current call
    ret,        \* how the last load_or_build or load_index call ended (none while one runs)
    lastQuery,  \* what the last query call observed and did
    sPc,        \* part 2: where the retrieval call stands
    sCall,      \* part 2: the call's arguments
    sLegs,      \* part 2: hybrid_search's sem_results and kw_results
    sMerged,    \* part 2: hybrid_search's merged list, before merged[:top_k]
    sOut,       \* part 2: the list the call returned
    sWritten,   \* part 2: the stored records (by row) the call has assigned an item to
    aPc,        \* part 3: where RAGPipeline.query stands after retrieval
    aCall,      \* part 3: the question, the retrieved records and the generate flag
    aRun,       \* part 3: what the call has done: contexts assembled, backends tried
    aResult,    \* part 3: how query ended, and the dict it returned
    appPc,      \* part 4: the HTTP service: "down", "starting" (_startup runs) or "up"
    appRag,     \* part 4: app._rag: "None" or "pipeline"
    appLog,     \* part 4: the number of entries written to the query log
    appLast,    \* part 4: the last /query request and its response
    etlPc,      \* part 5: where the ETL stage's deduplicate call stands
    etlIn,      \* part 5: the records given to deduplicate
    etlOut      \* part 5: the records deduplicate returned

lifeVars == <<clock, corpus, faissFile, metaFile, plPc, plCaller, force_rebuild,
              plIndex, plMetadata, plKeyword, lobEntry, lobRecords, lobResult,
              lobBuilds, ret, lastQuery>>
searchVars == <<sPc, sCall, sLegs, sMerged, sOut, sWritten>>
answerVars == <<aPc, aCall, aRun, aResult>>
appVars == <<appPc, appRag, appLog, appLast>>
etlVars == <<etlPc, etlIn, etlOut>>
vars == <<lifeVars, searchVars, answerVars, appVars, etlVars>>

diskVars == <<corpus, faissFile, metaFile>>
memVars == <<plIndex, plMetadata, plKeyword>>

Min(a, b) == IF a <= b THEN a ELSE b

NoFile == [exists |-> FALSE, ver |-> 0, mtime |-> 0]
NoCall == [op |-> "none"]
NoLegs == [sem |-> <<>>, kw |-> <<>>]
\* assemble_context([]) and the "" that query starts context with: no block
NoContext == [blocks |-> <<>>, len |-> 0]
\* the "" that query starts answer with
NoAnswer == [kind |-> "empty"]
NoAnswerCall == [question |-> "none", records |-> <<>>, generate |-> FALSE]
NoRun == [generated |-> FALSE, assembled |-> 0, tried |-> <<>>,
          context |-> NoContext, answer |-> NoAnswer]
NoResult == [status |-> "none"]
NoRequest == [status |-> "none", blank |-> FALSE, ready |-> FALSE, logged |-> FALSE]
\* no earlier call to compare a load_or_build call with, and no comparison
NoPrev == [ok |-> FALSE, pair |-> <<0, 0>>, builds |-> 0]
NoSecond == [is |-> FALSE, samePair |-> TRUE, builds |-> 0]
NoEntry == <<NoFile, NoFile, NoFile, NoPrev>>
NoBuilds == [built |-> 0, saved |-> 0]
NoRet == [path |-> "none", stale |-> FALSE, corpusUntouched |-> TRUE,
          validPairKept |-> TRUE, staleAtEntry |-> FALSE, entryValid |-> FALSE,
          builds |-> 0, saves |-> 0, at |-> "none", artifactsUntouched |-> TRUE,
          read |-> {}, pair |-> <<0, 0>>, corpusVer |-> 0, second |-> NoSecond]
NoQuery == [status |-> "none", blank |-> FALSE, retrieved |-> FALSE,
            stale |-> FALSE, samePair |-> TRUE]

\* The states of the thread inside load_or_build.
LobPcs == {"lob_check", "lob_read", "lob_build", "save_faiss", "save_meta"}
\* The states of the thread inside _load (load_or_build and what follows it).
LoadPcs == LobPcs \cup {"assign", "keyword"}

\* An index_is_stale that compares the corpus with the newer of the two
\* artifacts.
index_is_stale_NewerThanBoth ==
    IF ~faissFile.exists \/ ~metaFile.exists
    THEN TRUE
    ELSE corpus.mtime > faissFile.mtime /\ corpus.mtime > metaFile.mtime

\* An index_is_stale for which a corpus as old as an artifact is stale.
index_is_stale_NotStrict ==
    IF ~faissFile.exists \/ ~metaFile.exists
    THEN TRUE
    ELSE corpus.mtime >= Min(faissFile.mtime, metaFile.mtime)

\* vector_store.index_is_stale with the three files as they are now.
index_is_stale ==
    IF ~faissFile.exists \/ ~metaFile.exists
    THEN TRUE
    ELSE corpus.mtime > Min(faissFile.mtime, metaFile.mtime)

Init ==
    /\ clock = 0
    /\ corpus = NoFile
    /\ faissFile = NoFile
    /\ metaFile = NoFile
    /\ plPc = "none"
    /\ plCaller = "init"
    /\ force_rebuild = FALSE
    /\ plIndex = 0
    /\ plMetadata = 0
    /\ plKeyword = 0
    /\ lobEntry = NoEntry
    /\ lobRecords = 0
    /\ lobResult = <<0, 0>>
    /\ lobBuilds = NoBuilds
    /\ ret = NoRet
    /\ lastQuery = NoQuery
    /\ sPc = "idle"
    /\ sCall = NoCall
    /\ sLegs = NoLegs
    /\ sMerged = <<>>
    /\ sOut = <<>>
    /\ sWritten = {}
    /\ aPc = "idle"
    /\ aCall = NoAnswerCall
    /\ aRun = NoRun
    /\ aResult = NoResult
    /\ appPc = "down"
    /\ appRag = "None"
    /\ appLog = 0
    /\ appLast = NoRequest
    /\ etlPc = "idle"
    /\ etlIn = <<>>
    /\ etlOut = <<>>

\* ------------------------------------------------------------ environment
\* File-system time passes.
Tick ==
    /\ UNCHANGED <<searchVars, answerVars, appVars, etlVars>>
    /\ clock < MaxClock
    /\ clock' = clock + 1
    /\ UNCHANGED <<diskVars, plPc, plCaller, force_rebuild, memVars,
                   lobEntry, lobRecords, lobResult, lobBuilds, ret, lastQuery>>

\* etl.pipeline._write_json: the ETL stage (another process) rewrites
\* courses.json with new content; the file gets the current time as mtime.
write_json ==
    /\ UNCHANGED <<searchVars, answerVars, appVars, etlVars>>
    /\ corpus.ver < MaxVer
    /\ corpus' = [exists |-> TRUE, ver |-> corpus.ver + 1, mtime |-> clock]
    /\ UNCHANGED <<clock, faissFile, metaFile, plPc, plCaller, force_rebuild,
                   memVars, lobEntry, lobRecords, lobResult, lobBuilds, ret,
                   lastQuery>>

\* ------------------------------------------------------------ RAGPipeline
\* The load_or_build call that returned last, for the call now entered to
\* be compared with: the pair it returned and how many times it built, when
\* the corpus file has not been written since that call was entered.
Prev ==
    IF ret.path \in {"load", "build"} /\ ret.corpusUntouched
         /\ ret.corpusVer = corpus.ver
    THEN [ok |-> TRUE, pair |-> ret.pair, builds |-> ret.builds]
    ELSE NoPrev

\* RAGPipeline(force_rebuild=f): a new object, whose __post_init__ calls _load.
post_init ==
    /\ UNCHANGED <<searchVars, answerVars, appVars, etlVars>>
    /\ plPc \in {"none", "ready"}
    /\ \E f \in BOOLEAN : force_rebuild' = f
    /\ plCaller' = "init"
    /\ plIndex' = 0 /\ plMetadata' = 0 /\ plKeyword' = 0
    /\ plPc' = "lob_check"
    /\ lobEntry' = <<corpus, faissFile, metaFile, Prev>>
    /\ lobBuilds' = NoBuilds
    /\ ret' = NoRet
    /\ UNCHANGED <<clock, diskVars, lobRecords, lobResult, lastQuery>>

\* RAGPipeline.rebuild up to its call of _load.
rebuild ==
    /\ UNCHANGED <<searchVars, answerVars, appVars, etlVars>>
    /\ plPc = "ready"
    /\ force_rebuild' = TRUE
    /\ plCaller' = "rebuild"
    /\ plPc' = "lob_check"
    /\ lobEntry' = <<corpus, faissFile, metaFile, Prev>>
    /\ lobBuilds' = NoBuilds
    /\ ret' = NoRet
    /\ UNCHANGED <<clock, diskVars, memVars, lobRecords, lobResult, lastQuery>>

\* A persisted pair written by one build: both files, of the same content.
ValidPair(f, m) == f.exists /\ m.exists /\ f.ver = m.ver

\* What index_is_stale() was, and whether a pair written by one build was
\* on disk, when the running load_or_build call was entered.
StaleAtEntry ==
    \/ ~lobEntry[2].exists
    \/ ~lobEntry[3].exists
    \/ lobEntry[1].mtime > Min(lobEntry[2].mtime, lobEntry[3].mtime)
EntryValid == ValidPair(lobEntry[2], lobEntry[3])

\* How a load_or_build call that returns normally is recorded: whether
\* index_is_stale() is true at the return, whether the corpus file is
\* still the one the call found when it was entered, what the artifacts
\* were at the entry, how many times it built and persisted, the pair it
\* returned, and, for a call that is not forced and follows a call that
\* returned with no write of the corpus file since that one was entered,
\* whether both returned the same pair and how many times they built.
Returned(path) ==
    [path |-> path, stale |-> index_is_stale',
     corpusUntouched |-> (corpus' = lobEntry[1]),
     validPairKept |-> TRUE,
     staleAtEntry |-> StaleAtEntry, entryValid |-> EntryValid,
     builds |-> lobBuilds'.built, saves |-> lobBuilds'.saved,
     at |-> "return",
     artifactsUntouched |-> (<<faissFile', metaFile'>> = <<lobEntry[2], lobEntry[3]>>),
     read |-> IF path = "load" THEN {"faiss.index", "metadata.pkl"} ELSE {},
     pair |-> lobResult', corpusVer |-> corpus'.ver,
     second |-> IF lobEntry[4].ok /\ ~force_rebuild /\ corpus' = lobEntry[1]
                THEN [is |-> TRUE, samePair |-> (lobResult' = lobEntry[4].pair),
                      builds |-> lobEntry[4].builds + lobBuilds'.built]
                ELSE NoSecond]

\* An exception leaves _load: a pipeline under construction does not come to
\* exist, a rebuild() call ends with the object's fields as they were (and
\* force_rebuild still set: line 74 is not reached).
Raise ==
    /\ plPc' = IF plCaller = "init" THEN "none" ELSE "ready"
    /\ ret' = [path |-> "raised", stale |-> FALSE,
               corpusUntouched |-> (corpus = lobEntry[1]),
               validPairKept |-> (ValidPair(lobEntry[2], lobEntry[3])
                                   => <<faissFile, metaFile>> = <<lobEntry[2], lobEntry[3]>>),
               staleAtEntry |-> StaleAtEntry, entryValid |-> EntryValid,
               builds |-> lobBuilds.built, saves |-> lobBuilds.saved,
               at |-> plPc,
               artifactsUntouched |-> (<<faissFile', metaFile'>> = <<lobEntry[2], lobEntry[3]>>),
               read |-> {}, pair |-> <<0, 0>>, corpusVer |-> 0, second |-> NoSecond]
    /\ lobEntry' = NoEntry
    /\ lobRecords' = 0
    /\ UNCHANGED <<plCaller, force_rebuild, memVars, lobResult, lobBuilds>>

\* A load_index that tests for faiss.index only.
load_index_FaissOnly ==
    IF ~faissFile.exists
    THEN "missing"
    ELSE <<faissFile.ver, metaFile.ver>>

\* vector_store.load_index: the persisted pair as read back, or "missing"
\* (FAISSIndexMissingError) when either file is absent.
load_index ==
    IF ~faissFile.exists \/ ~metaFile.exists
    THEN "missing"
    ELSE <<faissFile.ver, metaFile.ver>>

\* vector_store.load_index called on its own, outside load_or_build: the
\* two tests of line 90-99 come before the two reads of line 100-102.
load_index_call ==
    /\ UNCHANGED <<searchVars, answerVars, appVars, etlVars>>
    /\ plPc \in {"none", "ready"}
    /\ ret' = [NoRet EXCEPT
                 !.path = "load_index",
                 !.at = IF load_index = "missing" THEN "FAISSIndexMissingError"
                                                  ELSE "return",
                 !.read = IF load_index = "missing" THEN {}
                                                    ELSE {"faiss.index", "metadata.pkl"}]
    /\ UNCHANGED <<clock, diskVars, plPc, plCaller, force_rebuild, memVars,
                   lobEntry, lobRecords, lobResult, lobBuilds, lastQuery>>

\* A load_or_build that loads whatever index file is there.
ShouldLoad_IgnoringStaleness == ~force_rebuild /\ faissFile.exists

\* A load_or_build that rebuilds when the corpus is as old as an artifact.
ShouldLoad_RebuildsWhenAsOld ==
    ~force_rebuild /\ faissFile.exists /\ ~index_is_stale_NotStrict

\* load_or_build, line 124: the test that decides for the load.
ShouldLoad == ~force_rebuild /\ faissFile.exists /\ ~index_is_stale

\* load_or_build, line 124-125: the test, and the load when it passes.
lob_check ==
    /\ UNCHANGED <<searchVars, answerVars, appVars, etlVars>>
    /\ plPc = "lob_check"
    /\ UNCHANGED <<clock, diskVars, lastQuery>>
    /\ IF ShouldLoad
       THEN IF load_index = "missing"
            THEN Raise
            ELSE /\ lobResult' = load_index
                 /\ plPc' = "assign"
                 /\ UNCHANGED <<plCaller, force_rebuild, memVars, lobRecords,
                                lobBuilds>>
                 /\ ret' = Returned("load")
                 /\ lobEntry' = NoEntry
       ELSE /\ plPc' = "lob_read"
            /\ UNCHANGED <<plCaller, force_rebuild, memVars, lobEntry,
                           lobRecords, lobResult, lobBuilds, ret>>

\* A load_or_build that empties faiss.index as soon as it has decided to
\* rebuild.
lob_read_TruncatingIndex ==
    /\ UNCHANGED <<searchVars, answerVars, appVars, etlVars>>
    /\ plPc = "lob_read"
    /\ UNCHANGED <<clock, corpus, metaFile, lastQuery>>
    /\ IF corpus.exists
       THEN /\ faissFile' = NoFile
            /\ lobRecords' = corpus.ver
            /\ plPc' = "lob_build"
            /\ UNCHANGED <<plCaller, force_rebuild, memVars, lobEntry, lobResult,
                           lobBuilds, ret>>
       ELSE /\ faissFile' = faissFile
            /\ Raise

\* load_or_build, line 128-134: the corpus is read, or found missing.
lob_read ==
    /\ UNCHANGED <<searchVars, answerVars, appVars, etlVars>>
    /\ plPc = "lob_read"
    /\ UNCHANGED <<clock, diskVars, lastQuery>>
    /\ IF corpus.exists
       THEN /\ lobRecords' = corpus.ver
            /\ plPc' = "lob_build"
            /\ UNCHANGED <<plCaller, force_rebuild, memVars, lobEntry, lobResult,
                           lobBuilds, ret>>
       ELSE Raise

\* load_or_build, line 135: build_index embeds the records and succeeds.
build_index ==
    /\ UNCHANGED <<searchVars, answerVars, appVars, etlVars>>
    /\ plPc = "lob_build"
    /\ plPc' = "save_faiss"
    /\ lobBuilds' = [lobBuilds EXCEPT !.built = @ + 1]
    /\ UNCHANGED <<clock, diskVars, plCaller, force_rebuild, memVars,
                   lobEntry, lobRecords, lobResult, ret, lastQuery>>

\* save_index, line 78: faiss.write_index overwrites data/faiss.index.
save_index_faiss ==
    /\ UNCHANGED <<searchVars, answerVars, appVars, etlVars>>
    /\ plPc = "save_faiss"
    /\ faissFile' = [exists |-> TRUE, ver |-> lobRecords, mtime |-> clock]
    /\ plPc' = "save_meta"
    /\ UNCHANGED <<clock, corpus, metaFile, plCaller, force_rebuild, memVars,
                   lobEntry, lobRecords, lobResult, lobBuilds, ret, lastQuery>>

\* save_index, line 79-80, and load_or_build's return: pickle.dump
\* overwrites data/metadata.pkl.
save_index_meta ==
    /\ UNCHANGED <<searchVars, answerVars, appVars, etlVars>>
    /\ plPc = "save_meta"
    /\ metaFile' = [exists |-> TRUE, ver |-> lobRecords, mtime |-> clock]
    /\ UNCHANGED <<clock, corpus, faissFile, plCaller, force_rebuild, memVars,
                   lastQuery>>
    /\ lobResult' = <<lobRecords, lobRecords>>
    /\ lobBuilds' = [lobBuilds EXCEPT !.saved = @ + 1]
    /\ plPc' = "assign"
    /\ ret' = Returned("build")
    /\ lobEntry' = NoEntry
    /\ lobRecords' = 0

\* The build is interrupted or fails (the embedding gateway raises, a write
\* raises, the process is interrupted) before the step at plPc took effect.
build_fails ==
    /\ UNCHANGED <<searchVars, answerVars, appVars, etlVars>>
    /\ plPc \in {"lob_build", "save_faiss", "save_meta"}
    /\ UNCHANGED <<clock, diskVars, lastQuery>>
    /\ Raise

\* _load, line 59-62: the returned pair is stored in the object.
load_assign ==
    /\ UNCHANGED <<searchVars, answerVars, appVars, etlVars>>
    /\ plPc = "assign"
    /\ plIndex' = lobResult[1]
    /\ plMetadata' = lobResult[2]
    /\ lobResult' = <<0, 0>>
    /\ plPc' = "keyword"
    /\ UNCHANGED <<clock, diskVars, plCaller, force_rebuild, plKeyword,
                   lobEntry, lobRecords, lobBuilds, ret, lastQuery>>

\* A _load that builds the keyword searcher from courses.json as it is now.
KeywordSearcher_FromCorpusFile == corpus.ver

\* _load, line 63: the records the keyword searcher is built over.
KeywordSearcher == plMetadata

\* _load, line 63: KeywordSearcher(self._metadata); then, for rebuild,
\* line 74.
load_keyword ==
    /\ UNCHANGED <<searchVars, answerVars, appVars, etlVars>>
    /\ plPc = "keyword"
    /\ plKeyword' = KeywordSearcher
    /\ force_rebuild' = IF plCaller = "rebuild" THEN FALSE ELSE force_rebuild
    /\ plPc' = "ready"
    /\ UNCHANGED <<clock, diskVars, plCaller, plIndex, plMetadata,
                   lobEntry, lobRecords, lobResult, lobBuilds, ret, lastQuery>>

\* The object can be queried: it is constructed, and a thread may be inside
\* rebuild() (no lock keeps a query out).
Queryable == plPc = "ready" \/ (plCaller = "rebuild" /\ plPc \in LoadPcs)

\* RAGPipeline.query: no test of the text; retrieval (embedding, vector and
\* keyword search) runs on the three fields as they are. The record says
\* whether the snapshot on disk was stale when the query ran and whether the
\* keyword searcher it used was the one built over the metadata it used.
query(blank) ==
    [status |-> "ok", blank |-> blank, retrieved |-> TRUE,
     stale |-> index_is_stale, samePair |-> (plKeyword = plMetadata)]

\* A direct caller (run_rag.py line 116) calls RAGPipeline.query.
run_rag_query ==
    /\ UNCHANGED <<searchVars, answerVars, appVars, etlVars>>
    /\ Queryable
    /\ \E blank \in BOOLEAN : lastQuery' = query(blank)
    /\ UNCHANGED <<clock, diskVars, plPc, plCaller, force_rebuild, memVars,
                   lobEntry, lobRecords, lobResult, lobBuilds, ret>>

\* app.post_query: 400 for a blank q, 503 when no pipeline was loaded,
\* else RAGPipeline.query on the trimmed text.
post_query ==
    /\ UNCHANGED <<searchVars, answerVars, appVars, etlVars>>
    /\ plPc = "none" \/ Queryable
    /\ \E blank \in BOOLEAN :
         lastQuery' =
            IF blank
            THEN [NoQuery EXCEPT !.status = "400", !.blank = TRUE]
            ELSE IF plPc = "none"
            THEN [NoQuery EXCEPT !.status = "503"]
            ELSE query(FALSE)
    /\ UNCHANGED <<clock, diskVars, plPc, plCaller, force_rebuild, memVars,
                   lobEntry, lobRecords, lobResult, lobBuilds, ret>>

Next ==
    \/ Tick
    \/ write_json
    \/ post_init
    \/ rebuild
    \/ load_index_call
    \/ lob_check
    \/ lob_read
    \/ build_index
    \/ save_index_faiss
    \/ save_index_meta
    \/ build_fails
    \/ load_assign
    \/ load_keyword
    \/ run_rag_query
    \/ post_query

Spec == Init /\ [][Next]_vars

(***************************************************************************)
(* Part 2 (specification SpecSearch): retrieval.  vector_store.search,     *)
(* KeywordSearcher.search, the two fusion functions, hybrid_search and     *)
(* vector_search, computed as the code computes them, over small corpora.  *)
(* A Python float is modelled by the exact rational <<n, d>>, d > 0; a     *)
(* Python str by a sequence of characters; a dict by a function whose      *)
(* DOMAIN is its key set; an insertion-ordered dict of records by the      *)
(* sequence of its values.  What the embedding model, FAISS and BM25       *)
(* return for a query is an input: the rows in FAISS's order with their    *)
(* inner products, and one raw BM25 score per row.                         *)
(***************************************************************************)

\* ---------------------------------------------------------------- floats
Zero == <<0, 1>>
One == <<1, 1>>
RLeq(a, b) == a[1] * b[2] <= b[1] * a[2]
RLess(a, b) == a[1] * b[2] < b[1] * a[2]
REq(a, b) == a[1] * b[2] = b[1] * a[2]
RAdd(a, b) == <<a[1] * b[2] + b[1] * a[2], a[2] * b[2]>>
RMul(a, b) == <<a[1] * b[1], a[2] * b[2]>>
RECURSIVE Gcd(_, _)
Gcd(a, b) == IF b = 0 THEN a ELSE Gcd(b, a % b)
Reduced(a) == LET g == Gcd(IF a[1] < 0 THEN -a[1] ELSE a[1], a[2])
              IN <<a[1] \div g, a[2] \div g>>
\* a division that leaves the dividend as it is
RDiv_NoDivision(a, b) == a
\* a / b for b > 0, in lowest terms
RDiv(a, b) == Reduced(<<a[1] * b[2], a[2] * b[1]>>)
In01(a) == RLeq(Zero, a) /\ RLeq(a, One)

\* --------------------------------------------------------------- strings
UpperChars == <<"A", "B", "C", "E", "I", "L", "M", "N", "S", "T", "U", "X">>
LowerChars == <<"a", "b", "c", "e", "i", "l", "m", "n", "s", "t", "u", "x">>
CharIndex(cs, c) == IF \E i \in DOMAIN cs : cs[i] = c
                    THEN CHOOSE i \in DOMAIN cs : cs[i] = c
                    ELSE 0
\* str.lower and str.upper
lower(str) == [i \in DOMAIN str |->
                 IF CharIndex(UpperChars, str[i]) # 0
                 THEN LowerChars[CharIndex(UpperChars, str[i])] ELSE str[i]]
upper(str) == [i \in DOMAIN str |->
                 IF CharIndex(LowerChars, str[i]) # 0
                 THEN UpperChars[CharIndex(LowerChars, str[i])] ELSE str[i]]
\* Python's `a in b` on two str
IsSubstring(a, b) ==
    \E i \in 0..(Len(b) - Len(a)) : SubSeq(b, i + 1, i + Len(a)) = a

\* ----------------------------------------------------------------- dicts
Get(r, k, default) == IF k \in DOMAIN r THEN r[k] ELSE default
SetField(r, k, v) == (k :> v) @@ r
SetDefault(r, k, v) == r @@ (k :> v)
Pop(r, k) == [x \in DOMAIN r \ {k} |-> r[x]]
\* position of the entry of key `code` in an ordered dict, 0 when absent
KeyIndex(combined, code) ==
    IF \E i \in DOMAIN combined : combined[i].course_code = code
    THEN CHOOSE i \in DOMAIN combined : combined[i].course_code = code
    ELSE 0
\* combined[code] = rec
Put(combined, code, rec) ==
    IF KeyIndex(combined, code) = 0
    THEN Append(combined, rec)
    ELSE [combined EXCEPT ![KeyIndex(combined, code)] = rec]

\* sorted(items, key=..., reverse=True) on [key, val] pairs: descending,
\* equal keys keep their order (Python's sort is stable, also reversed).
\* An insertion that puts an item before the items of equal key.
RECURSIVE InsertDesc_BeforeEquals(_, _)
InsertDesc_BeforeEquals(sorted, x) ==
    IF sorted = <<>> THEN <<x>>
    ELSE IF RLeq(Head(sorted).key, x.key)
         THEN <<x>> \o sorted
         ELSE <<Head(sorted)>> \o InsertDesc_BeforeEquals(Tail(sorted), x)

RECURSIVE InsertDesc(_, _)
InsertDesc(sorted, x) ==
    IF sorted = <<>> THEN <<x>>
    ELSE IF RLess(Head(sorted).key, x.key)
         THEN <<x>> \o sorted
         ELSE <<Head(sorted)>> \o InsertDesc(Tail(sorted), x)
RECURSIVE SortedDesc(_)
SortedDesc(items) ==
    IF items = <<>> THEN <<>>
    ELSE InsertDesc(SortedDesc(SubSeq(items, 1, Len(items) - 1)), items[Len(items)])

\* ------------------------------------------------------- vector_store.search
\* search without the clip of line 178
clip_absent(score) == score

\* np.clip(score, 0.0, 1.0), line 178
clip(score) ==
    IF RLess(score, Zero) THEN Zero ELSE IF RLess(One, score) THEN One ELSE score

\* a filter that lets a record pass when either active filter matches
search_filter_either(rec, department, source) ==
    \/ department = <<>> /\ source = <<>>
    \/ department # <<>>
         /\ IsSubstring(lower(department), lower(Get(rec, "department", <<>>)))
    \/ source # <<>> /\ upper(Get(rec, "source", <<>>)) = upper(source)

\* search, line 172-177: TRUE when the record is kept ("" and None are
\* both falsy: <<>> is either).
search_filter(rec, department, source) ==
    /\ department # <<>> =>
          IsSubstring(lower(department), lower(Get(rec, "department", <<>>)))
    /\ source # <<>> => upper(Get(rec, "source", <<>>)) = upper(source)

\* a search that examines every row of the index
fetch_k_whole(ntotal, top_k, department, source) == ntotal

\* search, line 159-160
fetch_k(ntotal, top_k, department, source) ==
    Min(IF department # <<>> \/ source # <<>> THEN top_k * 3 ELSE top_k, ntotal)

\* search, line 166-181: the loop over the rows FAISS returned, from the
\* i-th on.  faiss = [ids, scores]: every row in FAISS's order.
RECURSIVE search_loop(_, _, _, _, _)
search_loop(metadata, faiss, q, i, results) ==
    IF i > fetch_k(Len(faiss.ids), q.top_k, q.department, q.source)
    THEN results
    ELSE IF ~search_filter(metadata[faiss.ids[i]], q.department, q.source)
    THEN search_loop(metadata, faiss, q, i + 1, results)
    ELSE LET rec == SetField(metadata[faiss.ids[i]], "similarity_score",
                             clip(faiss.scores[i]))
             grown == Append(results, rec)
         IN IF Len(grown) >= q.top_k THEN grown
            ELSE search_loop(metadata, faiss, q, i + 1, grown)

\* vector_store.search; q = [top_k, department, source]
search(metadata, faiss, q) == search_loop(metadata, faiss, q, 1, <<>>)

\* ------------------------------------------------- KeywordSearcher.search
\* keyword_search, line 70-75
keyword_filter(rec, department, source) ==
    /\ department # <<>> =>
          IsSubstring(lower(department), lower(Get(rec, "department", <<>>)))
    /\ source # <<>> => upper(Get(rec, "source", <<>>)) = upper(source)

RECURSIVE SeqMax(_)
SeqMax(s) == IF Len(s) = 1 THEN s[1]
             ELSE LET m == SeqMax(Tail(s)) IN IF s[1] >= m THEN s[1] ELSE m

\* raw scores that are not normalised
normed_ByOne(raw) == [i \in DOMAIN raw |-> <<raw[i], 1>>]

\* keyword_search, line 57-58: the raw scores over their maximum (over 1.0
\* when the maximum is not positive).
normed(raw) ==
    LET max_score == IF SeqMax(raw) > 0 THEN SeqMax(raw) ELSE 1
    IN [i \in DOMAIN raw |-> <<raw[i], max_score>>]

\* keyword_search, line 64-80: the loop over the rows in score order.
RECURSIVE keyword_loop(_, _, _, _, _)
keyword_loop(records, scored, q, i, results) ==
    IF i > Len(scored) THEN results
    ELSE IF RLeq(scored[i].key, Zero) THEN results
    ELSE IF ~keyword_filter(records[scored[i].val], q.department, q.source)
    THEN keyword_loop(records, scored, q, i + 1, results)
    ELSE LET rec == SetField(records[scored[i].val], "keyword_score", scored[i].key)
             grown == Append(results, rec)
         IN IF Len(grown) >= q.top_k THEN grown
            ELSE keyword_loop(records, scored, q, i + 1, grown)

\* KeywordSearcher.search; bm25 = [tokens, raw]: whether the query has any
\* token, and BM25's raw score of every row.
keyword_search(records, bm25, q) ==
    IF ~bm25.tokens THEN <<>>
    ELSE keyword_loop(records,
                      SortedDesc([i \in DOMAIN records |->
                                     [key |-> normed(bm25.raw)[i], val |-> i]]),
                      q, 1, <<>>)

\* ------------------------------------------------------------- hybrid.py
\* _reciprocal_rank_fusion's default k, line 26
RRF_K == 60

\* _reciprocal_rank_fusion, line 35-40: the loop over the semantic results.
RECURSIVE rrf_semantic_loop(_, _, _)
rrf_semantic_loop(semantic_results, rank, combined) ==
    IF rank > Len(semantic_results) THEN combined
    ELSE LET rec == semantic_results[rank]
             code == rec.course_code
             entry == IF KeyIndex(combined, code) = 0
                      THEN SetDefault(rec, "keyword_score", Zero)
                      ELSE combined[KeyIndex(combined, code)]
             scored == SetField(entry, "rrf_score",
                                RAdd(Get(entry, "rrf_score", Zero), <<1, RRF_K + rank>>))
         IN rrf_semantic_loop(semantic_results, rank + 1, Put(combined, code, scored))

\* _reciprocal_rank_fusion, line 42-48: the loop over the keyword results.
RECURSIVE rrf_keyword_loop(_, _, _)
rrf_keyword_loop(keyword_results, rank, combined) ==
    IF rank > Len(keyword_results) THEN combined
    ELSE LET rec == keyword_results[rank]
             code == rec.course_code
             entry == IF KeyIndex(combined, code) = 0
                      THEN SetDefault(rec, "similarity_score", Zero)
                      ELSE combined[KeyIndex(combined, code)]
             withKw == SetDefault(entry, "keyword_score", Get(rec, "keyword_score", Zero))
             scored == SetField(withKw, "rrf_score",
                                RAdd(Get(withKw, "rrf_score", Zero), <<1, RRF_K + rank>>))
         IN rrf_keyword_loop(keyword_results, rank + 1, Put(combined, code, scored))

\* _reciprocal_rank_fusion, line 50-56
reciprocal_rank_fusion(semantic_results, keyword_results) ==
    LET combined == rrf_keyword_loop(keyword_results, 1,
                        rrf_semantic_loop(semantic_results, 1, <<>>))
        results == SortedDesc([i \in DOMAIN combined |->
                                 [key |-> Get(combined[i], "rrf_score", Zero),
                                  val |-> combined[i]]])
        max_rrf == IF results = <<>> THEN One ELSE Get(results[1].val, "rrf_score", One)
    IN [i \in DOMAIN results |->
          IF max_rrf[1] # 0
          THEN SetField(Pop(results[i].val, "rrf_score"), "final_score",
                        RDiv(Get(results[i].val, "rrf_score", Zero), max_rrf))
          ELSE SetField(results[i].val, "final_score", Zero)]

\* _weighted_sum, line 68-73
RECURSIVE ws_semantic_loop(_, _, _)
ws_semantic_loop(semantic_results, i, combined) ==
    IF i > Len(semantic_results) THEN combined
    ELSE LET rec == semantic_results[i]
             code == rec.course_code
             entry == IF KeyIndex(combined, code) = 0
                      THEN SetDefault(rec, "keyword_score", Zero)
                      ELSE combined[KeyIndex(combined, code)]
         IN ws_semantic_loop(semantic_results, i + 1,
                Put(combined, code,
                    SetField(entry, "similarity_score", Get(rec, "similarity_score", Zero))))

\* _weighted_sum, line 75-80
RECURSIVE ws_keyword_loop(_, _, _)
ws_keyword_loop(keyword_results, i, combined) ==
    IF i > Len(keyword_results) THEN combined
    ELSE LET rec == keyword_results[i]
             code == rec.course_code
             entry == IF KeyIndex(combined, code) = 0
                      THEN SetDefault(rec, "similarity_score", Zero)
                      ELSE combined[KeyIndex(combined, code)]
         IN ws_keyword_loop(keyword_results, i + 1,
                Put(combined, code,
                    SetField(entry, "keyword_score", Get(rec, "keyword_score", Zero))))

\* _weighted_sum, line 82-88
weighted_sum(semantic_results, keyword_results, alpha, beta) ==
    LET combined == ws_keyword_loop(keyword_results, 1,
                        ws_semantic_loop(semantic_results, 1, <<>>))
        scored == [i \in DOMAIN combined |->
                     SetField(combined[i], "final_score",
                        RAdd(RMul(alpha, Get(combined[i], "similarity_score", Zero)),
                             RMul(beta, Get(combined[i], "keyword_score", Zero))))]
        results == SortedDesc([i \in DOMAIN scored |->
                                 [key |-> scored[i].final_score, val |-> scored[i]]])
    IN [i \in DOMAIN results |-> results[i].val]

\* hybrid_search, line 130-138: the two legs, each with its pool as top_k.
hybrid_semantic(metadata, faiss, q) ==
    search(metadata, faiss, [q EXCEPT !.top_k = q.semantic_pool])
hybrid_keyword(records, bm25, q) ==
    keyword_search(records, bm25, [q EXCEPT !.top_k = q.keyword_pool])

\* hybrid_search, line 141-150: the fusion, and the three score fields
\* ensured on every merged record.
hybrid_merge(sem_results, kw_results, q) ==
    LET merged == IF q.fusion = "rrf"
                  THEN reciprocal_rank_fusion(sem_results, kw_results)
                  ELSE weighted_sum(sem_results, kw_results, q.alpha, q.beta)
    IN [i \in DOMAIN merged |->
          SetDefault(SetDefault(SetDefault(merged[i], "similarity_score", Zero),
                                "keyword_score", Zero), "final_score", Zero)]

\* hybrid_search, line 156: merged[:top_k]
Truncate(merged, top_k) == SubSeq(merged, 1, Min(top_k, Len(merged)))

\* a vector_search that takes final_score from a field not yet set
vector_final_unset(r) == Get(r, "final_score", Zero)

\* vector_search, line 183: the value given to final_score
vector_final(r) == Get(r, "similarity_score", Zero)

\* a vector_search that returns what the Vector Store search returned
vector_search_bare(metadata, faiss, q) == search(metadata, faiss, q)

\* vector_search, line 177-184
vector_search(metadata, faiss, q) ==
    LET results == search(metadata, faiss, q)
    IN [i \in DOMAIN results |->
          SetField(SetDefault(results[i], "keyword_score", Zero),
                   "final_score", vector_final(results[i]))]

\* ------------------------------------------------ the records a call writes
\* Objects are named by number: a stored record (an element of the metadata
\* list, which is also the KeywordSearcher's _records) by its row, a dict
\* made during a call by 0.
\* rec = metadata[idx]: the stored record itself
dict_alias(obj) == obj

\* dict(x), vector_store.py line 170, keyword_search.py line 67, hybrid.py
\* line 38, 45, 71, 78: a new dict with the items of x
dict(obj) == 0

\* the objects a leg's results are: rec of vector_store.py line 170 and of
\* keyword_search.py line 67 (the row number stands for the course_code)
leg_recs(results) == [j \in DOMAIN results |-> dict(results[j].course_code)]

\* the objects the merged records are: combined[code] of hybrid.py line
\* 38-48 and 71-80, each made from a leg's result
combined_recs(merged) == [j \in DOMAIN merged |-> dict(leg_recs(merged)[j])]

\* The stored records among the objects that were assigned an item.
written(objs) == {objs[j] : j \in DOMAIN objs} \ {0}

\* ------------------------------------------------------ retrieval calls
\* Rows of the corpus in a direct search call, and in a hybrid_search call.
MaxRows == 3
MaxHybridRows == 2
\* Largest top_k of a call.
MaxTopK == 2
\* hybrid_search's default semantic_pool and keyword_pool, line 105-106
DEFAULT_POOL == 50

BULLETIN == <<"B", "U", "L", "L", "E", "T", "I", "N">>
\* the department and source of a row: one of these
HybridRowKinds ==
    { [department |-> <<"c", "S">>, source |-> BULLETIN],
      [department |-> <<"M", "a">>, source |-> <<"C", "A", "B">>] }
\* the rows of a corpus searched by keyword or by vector alone: a department
\* that holds the filter as a substring in another case, and one that does
\* not; the source filters match the source in another case, or not at all
FilterRowKinds ==
    { [department |-> <<"X", "C", "s">>, source |-> <<"C", "A", "B">>],
      [department |-> <<"M", "a">>, source |-> <<"C", "A", "B">>] }
\* the corpora of n rows; course_code is unique (the row number stands for it)
Corpora(n, rowKinds) ==
    { [i \in 1..n |-> [course_code |-> i, department |-> kinds[i].department,
                       source |-> kinds[i].source]] : kinds \in [1..n -> rowKinds] }
VecRaw == {<<-1, 2>>, <<1, 2>>, <<3, 2>>}
\* what index.search can return for n rows: the rows in any order, with
\* inner products that do not increase along it
FaissOuts(n) ==
    { [ids |-> ids, scores |-> scores] :
        ids \in {p \in [1..n -> 1..n] : \A i, j \in 1..n : p[i] = p[j] => i = j},
        scores \in {sc \in [1..n -> VecRaw] :
                      \A i \in 1..n : i < n => RLeq(sc[i + 1], sc[i])} }
BmRaw == {-1, 0, 1, 2}
\* what BM25 can return for n rows, and whether the query has any token
Bm25Outs(n, scores) ==
    { [tokens |-> TRUE, raw |-> raw] : raw \in [1..n -> scores] }
       \cup { [tokens |-> FALSE, raw |-> [i \in 1..n |-> 0]] }
Departments == {<<>>, <<"c", "s">>}
Sources == {<<>>, <<"c", "a", "b">>, <<"C", "A">>}
\* the weights <<alpha, beta>> of a call: the defaults (pipeline.py line
\* 87-88), one weight alone, and weights whose sum is below and above 1
DEFAULT_WEIGHTS == <<<<7, 10>>, <<3, 10>>>>
WeightPairs == {DEFAULT_WEIGHTS, <<Zero, One>>,
                <<<<3, 10>>, <<3, 10>>>>, <<One, One>>}
Pools == {<<DEFAULT_POOL, DEFAULT_POOL>>, <<1, DEFAULT_POOL>>, <<DEFAULT_POOL, 1>>}

\* Rows of the corpus in a direct call of vector_store.search: more than
\* 3 * top_k for the smallest top_k, so that a filtered pool leaves rows out.
MaxSearchRows == 4
\* what index.search returns in such a call: the rows in a rotated order,
\* with inner products that do not increase along it
FaissRotations(n) ==
    { [ids |-> [i \in 1..n |-> ((i + r - 1) % n) + 1], scores |-> scores] :
        r \in 0..(n - 1),
        scores \in {sc \in [1..n -> {<<1, 2>>, <<3, 2>>}] :
                      \A i \in 1..n : i < n => RLeq(sc[i + 1], sc[i])} }

\* vector_store.search, called on its own; the call keeps its inputs.
search_call ==
    /\ sPc = "idle"
    /\ \E n \in 1..MaxSearchRows : \E metadata \in Corpora(n, HybridRowKinds),
          faiss \in FaissRotations(n), top_k \in 1..MaxTopK,
          department \in Departments, source \in Sources \ {<<"C", "A">>} :
         LET q == [op |-> "search", top_k |-> top_k, department |-> department,
                   source |-> source, metadata |-> metadata, faiss |-> faiss]
         IN /\ sCall' = q
            /\ sOut' = search(metadata, faiss, q)
            /\ sWritten' = written(leg_recs(search(metadata, faiss, q)))
    /\ sPc' = "done"
    /\ UNCHANGED <<lifeVars, answerVars, appVars, etlVars, sLegs, sMerged>>

\* KeywordSearcher.search, called on its own; the call keeps its inputs.
keyword_call ==
    /\ sPc = "idle"
    /\ \E n \in 1..MaxRows : \E records \in Corpora(n, FilterRowKinds),
          bm25 \in Bm25Outs(n, BmRaw),
          top_k \in 1..MaxTopK, department \in Departments, source \in Sources :
         LET q == [op |-> "keyword", top_k |-> top_k, department |-> department,
                   source |-> source, records |-> records, bm25 |-> bm25]
         IN /\ sCall' = q
            /\ sOut' = keyword_search(records, bm25, q)
            /\ sWritten' = written(leg_recs(keyword_search(records, bm25, q)))
    /\ sPc' = "done"
    /\ UNCHANGED <<lifeVars, answerVars, appVars, etlVars, sLegs, sMerged>>

\* hybrid.vector_search (RAGPipeline.query with mode="vector").
vector_search_call ==
    /\ sPc = "idle"
    /\ \E n \in 1..MaxRows : \E metadata \in Corpora(n, FilterRowKinds), faiss \in FaissOuts(n),
          top_k \in 1..MaxTopK, department \in Departments, source \in Sources :
         LET q == [op |-> "vector", top_k |-> top_k, department |-> department,
                   source |-> source]
         IN /\ sCall' = q
            /\ sOut' = vector_search(metadata, faiss, q)
            /\ sWritten' = written(leg_recs(vector_search(metadata, faiss, q)))
    /\ sPc' = "done"
    /\ UNCHANGED <<lifeVars, answerVars, appVars, etlVars, sLegs, sMerged>>

\* hybrid_search, steps 1 and 2: both legs over the same records.
hybrid_legs ==
    /\ sPc = "idle"
    /\ \E n \in 1..MaxHybridRows : \E metadata \in Corpora(n, HybridRowKinds),
          faiss \in FaissOuts(n), bm25 \in Bm25Outs(n, BmRaw \ {-1}),
          department \in Departments, source \in Sources \ {<<"C", "A">>},
          pools \in Pools :
         LET q == [op |-> "hybrid", department |-> department, source |-> source,
                   semantic_pool |-> pools[1], keyword_pool |-> pools[2]]
         IN /\ sCall' = q
            /\ sLegs' = [sem |-> hybrid_semantic(metadata, faiss, q @@ [top_k |-> 0]),
                         kw |-> hybrid_keyword(metadata, bm25, q @@ [top_k |-> 0])]
            /\ sWritten' =
                  written(leg_recs(hybrid_semantic(metadata, faiss, q @@ [top_k |-> 0])))
                    \cup written(leg_recs(hybrid_keyword(metadata, bm25,
                                                         q @@ [top_k |-> 0])))
    /\ sPc' = "legs"
    /\ UNCHANGED <<lifeVars, answerVars, appVars, etlVars, sMerged, sOut>>

\* hybrid_search, step 3 to the return.
hybrid_fuse ==
    /\ sPc = "legs"
    /\ \E top_k \in 1..MaxTopK, fusion \in {"weighted", "rrf"},
          weights \in WeightPairs :
         /\ fusion = "rrf" => weights = DEFAULT_WEIGHTS
         /\ LET q == sCall @@ [top_k |-> top_k, fusion |-> fusion,
                               alpha |-> weights[1], beta |-> weights[2]]
            IN /\ sCall' = q
               /\ sMerged' = hybrid_merge(sLegs.sem, sLegs.kw, q)
               /\ sOut' = Truncate(hybrid_merge(sLegs.sem, sLegs.kw, q), top_k)
               /\ sWritten' = sWritten \cup
                     written(combined_recs(hybrid_merge(sLegs.sem, sLegs.kw, q)))
    /\ sPc' = "done"
    /\ UNCHANGED <<lifeVars, answerVars, appVars, etlVars, sLegs>>

\* The call has returned; the next one starts afresh.
search_return ==
    /\ sPc = "done"
    /\ sPc' = "idle"
    /\ sCall' = NoCall
    /\ sLegs' = NoLegs
    /\ sMerged' = <<>>
    /\ sOut' = <<>>
    /\ sWritten' = {}
    /\ UNCHANGED <<lifeVars, answerVars, appVars, etlVars>>

SearchNext ==
    \/ search_call
    \/ keyword_call
    \/ vector_search_call
    \/ hybrid_legs
    \/ hybrid_fuse
    \/ search_return

SpecSearch == Init /\ [][SearchNext]_vars

(***************************************************************************)
(* Part 3 (specification SpecAnswer): RAGPipeline.query after retrieval    *)
(* (pipeline.py line 146-165) and generator.py.  A string is modelled by   *)
(* its length in characters; a record by its course_code (the row number   *)
(* stands for it) and the lengths of its description and of its            *)
(* prerequisites (0: None or "").                                          *)
(***************************************************************************)
\* MAX_CONTEXT_TOKENS, generator.py line 30
MAX_CONTEXT_TOKENS == 2048
\* _CHAR_BUDGET, line 31
CHAR_BUDGET == MAX_CONTEXT_TOKENS * 4
\* len of _RECORD_TEMPLATE without its six fields, line 35-41
TEMPLATE_LEN == 59
\* len("None listed"), line 53
NONE_LISTED_LEN == 11
\* len("\n[...truncated...]\n---") with its two ellipsis characters, line 66
TRUNCATED_LEN == 18
\* the least room a truncated block is given, line 65
MIN_REMAINING == 80
\* Characters of a record's course_code, title, department and source together.
OtherFieldsLen == 40
\* Records of a retrieved list.
MaxRecords == 3

\* line 66: len(block[:remaining] + "\n[...truncated...]\n---"), where
\* len(block) > remaining
truncated_block_len(remaining) == remaining + TRUNCATED_LEN

\* line 52-61: len(block) for rec
block_len(rec) ==
    TEMPLATE_LEN + OtherFieldsLen + rec.description
      + (IF rec.prerequisites = 0 THEN NONE_LISTED_LEN ELSE rec.prerequisites)

\* assemble_context, line 51-70: the loop from the i-th record on.
RECURSIVE assemble_loop(_, _, _, _)
assemble_loop(records, i, blocks, char_count) ==
    IF i > Len(records) THEN blocks
    ELSE LET len == block_len(records[i])
         IN IF char_count + len > CHAR_BUDGET
            THEN IF CHAR_BUDGET - char_count > MIN_REMAINING
                 THEN LET cut == truncated_block_len(CHAR_BUDGET - char_count)
                      IN assemble_loop(records, i + 1,
                             Append(blocks, [row |-> records[i].course_code,
                                             truncated |-> TRUE, len |-> cut]),
                             char_count + cut)
                 ELSE blocks
            ELSE assemble_loop(records, i + 1,
                     Append(blocks, [row |-> records[i].course_code, truncated |-> FALSE,
                                     len |-> len]), char_count + len)

RECURSIVE SumLen(_)
SumLen(blocks) == IF blocks = <<>> THEN 0 ELSE Head(blocks).len + SumLen(Tail(blocks))

\* line 71: "\n".join(blocks)
join(blocks) ==
    [blocks |-> blocks,
     len |-> SumLen(blocks) + (IF blocks = <<>> THEN 0 ELSE Len(blocks) - 1)]

\* assemble_context
assemble_context(records) == join(assemble_loop(records, 1, <<>>, 0))

\* generate_answer, line 195: the backends in the order they are tried
BACKENDS_OpenAIFirst == <<"openai", "ollama", "huggingface">>
BACKENDS == <<"ollama", "huggingface", "openai">>

\* What can happen in a backend: it is absent (no server, no key, no
\* requests module), the request or the reading of the response raises, the
\* response is not ok, it holds no text, or it holds text.
BackendEvents == {"absent", "raises", "not_ok", "empty", "text"}

\* a backend that lets its exception through
backend_returns_uncaught(backend, event) ==
    IF event = "text" THEN [kind |-> "text", by |-> backend]
    ELSE IF event = "raises" THEN [kind |-> "raised"]
    ELSE [kind |-> "none"]

\* _try_ollama, _try_huggingface, _try_openai, line 92-177: the answer, or
\* None (an exception is caught: line 111-114, 146, 175).
backend_returns(backend, event) ==
    IF event = "text" THEN [kind |-> "text", by |-> backend] ELSE [kind |-> "none"]

\* a query that generates whenever asked to
ShouldGenerate_Always(generate, records) == generate

\* pipeline.py line 149: `if generate and records`
ShouldGenerate(generate, records) == generate /\ records # <<>>

\* the lists retrieval can return: up to MaxRecords records in ranked order
DescriptionLens == {0, 3950, 3986, 9000}
PrerequisitesLens == {0, 20}
Retrieved ==
    UNION { { [i \in 1..n |-> [course_code |-> i, description |-> f[i][1],
                               prerequisites |-> f[i][2]]] :
                f \in [1..n -> DescriptionLens \X PrerequisitesLens] } :
            n \in 0..MaxRecords }

\* query, line 121-150: retrieval has returned `records`; answer and context
\* are "" and the branch of line 149-153 is chosen.
query_retrieved ==
    /\ aPc = "idle"
    /\ \E records \in Retrieved, generate \in BOOLEAN :
         /\ aCall' = [question |-> "q", records |-> records, generate |-> generate]
         /\ aPc' = IF ShouldGenerate(generate, records) THEN "generate_answer"
                   ELSE IF records # <<>> THEN "assemble_context"
                   ELSE "return"
    /\ aRun' = NoRun
    /\ aResult' = NoResult
    /\ UNCHANGED <<lifeVars, searchVars, appVars, etlVars>>

\* generate_answer, line 191-192
generate_answer ==
    /\ aPc = "generate_answer"
    /\ aRun' = [aRun EXCEPT !.generated = TRUE, !.assembled = @ + 1,
                            !.context = assemble_context(aCall.records)]
    /\ aPc' = "backends"
    /\ UNCHANGED <<lifeVars, searchVars, appVars, etlVars, aCall, aResult>>

\* line 195-198: one turn of the loop, for the backend whose turn it is
try_backend(backend) ==
    /\ Len(aRun.tried) < Len(BACKENDS)
    /\ BACKENDS[Len(aRun.tried) + 1] = backend
    /\ \E event \in BackendEvents :
         LET answer == backend_returns(backend, event)
             tried == Append(aRun.tried, [backend |-> backend, event |-> event])
         IN IF answer.kind = "raised"
            THEN /\ aRun' = [aRun EXCEPT !.tried = tried]
                 /\ aResult' = [status |-> "raised"]
                 /\ aPc' = "done"
            ELSE IF answer.kind = "text"
            THEN /\ aRun' = [aRun EXCEPT !.tried = tried, !.answer = answer]
                 /\ aResult' = aResult
                 /\ aPc' = "return"
            ELSE /\ aRun' = [aRun EXCEPT !.tried = tried]
                 /\ aResult' = aResult
                 /\ aPc' = "backends"
    /\ UNCHANGED <<lifeVars, searchVars, appVars, etlVars, aCall>>

\* _try_ollama, called at line 196
try_ollama ==
    /\ aPc = "backends"
    /\ try_backend("ollama")

\* _try_huggingface, called at line 196
try_huggingface ==
    /\ aPc = "backends"
    /\ try_backend("huggingface")

\* _try_openai, called at line 196
try_openai ==
    /\ aPc = "backends"
    /\ try_backend("openai")

\* generate_answer, line 200-209: no backend gave an answer
generate_fallback ==
    /\ aPc = "backends"
    /\ Len(aRun.tried) = Len(BACKENDS)
    /\ aRun' = [aRun EXCEPT !.answer = [kind |-> "fallback", context |-> aRun.context]]
    /\ aPc' = "return"
    /\ UNCHANGED <<lifeVars, searchVars, appVars, etlVars, aCall, aResult>>

\* query, line 152-153: generate is off and there are records
query_assemble ==
    /\ aPc = "assemble_context"
    /\ aRun' = [aRun EXCEPT !.assembled = @ + 1,
                            !.context = assemble_context(aCall.records)]
    /\ aPc' = "return"
    /\ UNCHANGED <<lifeVars, searchVars, appVars, etlVars, aCall, aResult>>

\* query, line 155-165
query_return ==
    /\ aPc = "return"
    /\ aResult' = [status |-> "returned",
                   dict |-> [question |-> aCall.question, answer |-> aRun.answer,
                             context |-> aRun.context, records |-> aCall.records]]
    /\ aPc' = "done"
    /\ UNCHANGED <<lifeVars, searchVars, appVars, etlVars, aCall, aRun>>

\* The caller has the result; the next query starts afresh.
query_next ==
    /\ aPc = "done"
    /\ aPc' = "idle"
    /\ aCall' = NoAnswerCall
    /\ aRun' = NoRun
    /\ aResult' = NoResult
    /\ UNCHANGED <<lifeVars, searchVars, appVars, etlVars>>

AnswerNext ==
    \/ query_retrieved
    \/ generate_answer
    \/ try_ollama
    \/ try_huggingface
    \/ try_openai
    \/ generate_fallback
    \/ query_assemble
    \/ query_return
    \/ query_next

SpecAnswer == Init /\ [][AnswerNext]_vars

(***************************************************************************)
(* Part 4 (specification SpecApp): the HTTP service of app.py.  _startup   *)
(* constructs the pipeline once, through the load_or_build steps of part   *)
(* 1; the ETL stage and a `run_rag.py --build` in another process change   *)
(* the files while the service runs.                                       *)
(***************************************************************************)
\* Entries the query log gets in a run.
MaxLog == 2

\* app._startup, line 80-83: RAGPipeline(...) is constructed; its
\* __post_init__ calls _load with force_rebuild off.
app_startup ==
    /\ appPc = "down"
    /\ appPc' = "starting"
    /\ force_rebuild' = FALSE
    /\ plCaller' = "init"
    /\ plIndex' = 0 /\ plMetadata' = 0 /\ plKeyword' = 0
    /\ plPc' = "lob_check"
    /\ lobEntry' = <<corpus, faissFile, metaFile, Prev>>
    /\ lobBuilds' = NoBuilds
    /\ ret' = NoRet
    /\ UNCHANGED <<clock, diskVars, lobRecords, lobResult, lastQuery>>
    /\ UNCHANGED <<searchVars, answerVars, etlVars, appRag, appLog, appLast>>

\* _startup, line 83-89: the constructor returned and _rag is the pipeline,
\* or it raised, the exception is caught and _rag stays None.  The service
\* takes requests from then on.
app_started ==
    /\ appPc = "starting"
    /\ plPc \in {"none", "ready"}
    /\ appRag' = IF plPc = "ready" THEN "pipeline" ELSE "None"
    /\ appPc' = "up"
    /\ UNCHANGED <<lifeVars, searchVars, answerVars, etlVars, appLog, appLast>>

\* a post_query that tests readiness before the text
respond_ReadinessFirst(blank, rag) ==
    IF rag = "None" THEN "503" ELSE IF blank THEN "400" ELSE "200"

\* post_query, line 154-162: the status a request gets
respond(blank, rag) ==
    IF blank THEN "400" ELSE IF rag = "None" THEN "503" ELSE "200"

\* app.post_query, line 152-214: the two rejections, or the query and its
\* entry in the NDJSON file and in _query_log.
app_post_query ==
    /\ appPc = "up"
    /\ \E blank \in BOOLEAN :
         LET status == respond(blank, appRag)
         IN /\ status = "200" => appLog < MaxLog
            /\ appLog' = IF status = "200" THEN appLog + 1 ELSE appLog
            /\ lastQuery' = IF status = "200" THEN query(FALSE) ELSE lastQuery
            /\ appLast' = [status |-> status, blank |-> blank,
                           ready |-> (appRag # "None"),
                           logged |-> (appLog' # appLog)]
    /\ UNCHANGED <<clock, diskVars, plPc, plCaller, force_rebuild, memVars,
                   lobEntry, lobRecords, lobResult, lobBuilds, ret>>
    /\ UNCHANGED <<searchVars, answerVars, etlVars, appPc, appRag>>

\* `run_rag.py --build` in another process (run_rag.py line 107): both
\* artifacts are written from the corpus as it is.
run_rag_build ==
    /\ appPc = "up"
    /\ corpus.exists
    /\ faissFile' = [exists |-> TRUE, ver |-> corpus.ver, mtime |-> clock]
    /\ metaFile' = [exists |-> TRUE, ver |-> corpus.ver, mtime |-> clock]
    /\ UNCHANGED <<clock, corpus, plPc, plCaller, force_rebuild, memVars,
                   lobEntry, lobRecords, lobResult, lobBuilds, ret, lastQuery>>
    /\ UNCHANGED <<searchVars, answerVars, etlVars, appVars>>

AppNext ==
    \/ Tick
    \/ write_json
    \/ app_startup
    \/ lob_check
    \/ lob_read
    \/ build_index
    \/ save_index_faiss
    \/ save_index_meta
    \/ build_fails
    \/ load_assign
    \/ load_keyword
    \/ app_started
    \/ app_post_query
    \/ run_rag_build

SpecApp == Init /\ [][AppNext]_vars

(***************************************************************************)
(* Part 5 (specification SpecEtl): etl.normalize.deduplicate and           *)
(* CourseRecord.merge.  A record is its course_code (a number stands for   *)
(* the code, in the order of the codes), its source and one optional       *)
(* field, prerequisites: a sequence of characters, or None.                *)
(***************************************************************************)
\* Records given to deduplicate.
MaxEtlRecords == 3

\* None, which is no sequence of characters
None == <<"None">>

\* str.strip() for the characters of the model
RECURSIVE lstrip(_)
lstrip(str) == IF str # <<>> /\ Head(str) = " " THEN lstrip(Tail(str)) ELSE str
RECURSIVE rstrip(_)
rstrip(str) ==
    IF str # <<>> /\ str[Len(str)] = " " THEN rstrip(SubSeq(str, 1, Len(str) - 1))
    ELSE str
strip(str) == rstrip(lstrip(str))

\* CourseRecord.merge, models.py line 134-137: the value a field gets
merged_value(self_v, other_v) ==
    IF self_v # None /\ strip(self_v) # <<>> THEN self_v ELSE other_v

\* CourseRecord.merge, models.py line 127-138 (the course_code of a valid
\* record is a str that is not blank, so line 135 keeps it)
merge(self, other) ==
    [course_code |-> self.course_code,
     source |-> IF "CAB" \in {self.source, other.source} THEN "CAB" ELSE self.source,
     prerequisites |-> merged_value(self.prerequisites, other.prerequisites)]

\* deduplicate, normalize.py line 70-71: base merged with each of the others
RECURSIVE merge_all(_, _)
merge_all(base, others) ==
    IF others = <<>> THEN base
    ELSE merge_all(merge(base, Head(others)), Tail(others))

\* the records of `records` whose source is `source`, in their order
RECURSIVE from_source(_, _)
from_source(records, source) ==
    IF records = <<>> THEN <<>>
    ELSE (IF Head(records).source = source THEN <<Head(records)>> ELSE <<>>)
            \o from_source(Tail(records), source)

\* deduplicate, line 56-58: by_code[code]
RECURSIVE by_code(_, _)
by_code(records, code) ==
    IF records = <<>> THEN <<>>
    ELSE (IF Head(records).course_code = code THEN <<Head(records)>> ELSE <<>>)
            \o by_code(Tail(records), code)

\* deduplicate, line 63-72: the record a group gives
merged_group(group) ==
    IF Len(group) = 1 THEN group[1]
    ELSE LET cab == from_source(group, "CAB")
             bul == from_source(group, "BULLETIN")
             base == IF cab # <<>> THEN cab[1] ELSE group[1]
         IN merge_all(base, bul \o (IF cab # <<>> THEN Tail(cab) ELSE <<>>))

\* line 62: sorted(by_code.items()), the codes in ascending order
RECURSIVE sorted_codes(_)
sorted_codes(codes) ==
    IF codes = {} THEN <<>>
    ELSE LET least == CHOOSE c \in codes : \A d \in codes : c <= d
         IN <<least>> \o sorted_codes(codes \ {least})

\* etl.normalize.deduplicate
deduplicate(records) ==
    LET codes == sorted_codes({records[i].course_code : i \in DOMAIN records})
    IN [k \in DOMAIN codes |-> merged_group(by_code(records, codes[k]))]

Codes == {1, 2}
VALID_SOURCES == {"CAB", "BULLETIN"}
Prerequisites == {None, <<" ">>, <<"a">>, <<"b">>}
CourseRecords ==
    [course_code : Codes, source : VALID_SOURCES, prerequisites : Prerequisites]

\* The ETL stage calls deduplicate on the normalised records.
deduplicate_call ==
    /\ etlPc = "idle"
    /\ \E n \in 0..MaxEtlRecords : \E records \in [1..n -> CourseRecords] :
         /\ etlIn' = records
         /\ etlOut' = deduplicate(records)
    /\ etlPc' = "done"
    /\ UNCHANGED <<lifeVars, searchVars, answerVars, appVars>>

\* The call has returned; the next one starts afresh.
deduplicate_return ==
    /\ etlPc = "done"
    /\ etlPc' = "idle"
    /\ etlIn' = <<>>
    /\ etlOut' = <<>>
    /\ UNCHANGED <<lifeVars, searchVars, answerVars, appVars>>

EtlNext ==
    \/ deduplicate_call
    \/ deduplicate_return

SpecEtl == Init /\ [][EtlNext]_vars

C2_NeverServedStale == lastQuery.status = "ok" => ~lastQuery.stale

\* C3: whenever the pipeline is constructed and no _load is running, the
\* keyword searcher is built over exactly the record list held as metadata.
C3_KeywordOverMetadata ==
    plPc = "ready" => (plKeyword = plMetadata /\ plKeyword # 0)

\* C3 witness: a rebuild() has replaced the version-1 pair by a version-2 one.
C3_Witness ==
    /\ plPc = "ready" /\ plCaller = "rebuild" /\ ret.path = "build"
    /\ plMetadata = 2 /\ plKeyword = 2 /\ ~force_rebuild

\* C4 (as stated): every query, also one running while rebuild() runs, uses
\* a keyword searcher built over the metadata it uses.
C4_NeverHalfReplaced == lastQuery.status = "ok" => lastQuery.samePair

\* C5 (as stated): a build that fails leaves a previously valid persisted
\* pair as it was, and outside a running save the disk never holds the
\* index of one build with the ordering of another.
C5_PersistAllOrNothing ==
    /\ ret.path = "raised" => ret.validPairKept
    /\ (plPc # "save_meta" /\ faissFile.exists /\ metaFile.exists)
            => faissFile.ver = metaFile.ver

\* C8 (as stated): a query with blank text is rejected and retrieves nothing.
C8_BlankQueryRejected ==
    lastQuery.blank => (lastQuery.status = "400" /\ ~lastQuery.retrieved)

\* ------------------------------------------------------ claims, part 2
\* Checked under SpecSearch.

\* C6 -- under both fusion strategies, a record whose course_code is in the
\* result list of both legs occurs exactly once in the merged output, with
\* the similarity_score of the vector leg and the keyword_score of the
\* keyword leg.
C6_BothLegsOnceWithBothScores ==
    (sPc = "done" /\ sCall.op = "hybrid") =>
        \A i \in DOMAIN sLegs.sem : \A j \in DOMAIN sLegs.kw :
            sLegs.sem[i].course_code = sLegs.kw[j].course_code =>
                LET at == {m \in DOMAIN sMerged :
                             sMerged[m].course_code = sLegs.sem[i].course_code}
                IN /\ Cardinality(at) = 1
                   /\ \A m \in at :
                        /\ REq(sMerged[m].similarity_score, sLegs.sem[i].similarity_score)
                        /\ REq(sMerged[m].keyword_score, sLegs.kw[j].keyword_score)

\* C7, as stated -- for all weights alpha, beta in [0,1] and both fusion
\* strategies, every result of hybrid_search or vector_search has
\* similarity_score, keyword_score and final_score within [0,1].
C7_AllScoresInUnitInterval ==
    (sPc = "done" /\ sCall.op \in {"hybrid", "vector"}) =>
        \A i \in DOMAIN sOut : /\ In01(sOut[i].similarity_score)
                               /\ In01(sOut[i].keyword_score)
                               /\ In01(sOut[i].final_score)

\* C7, amended -- every result of vector_search, of hybrid_search with RRF,
\* and of hybrid_search with the weighted sum when alpha, beta >= 0 and
\* alpha + beta <= 1, has similarity_score, keyword_score and final_score
\* within [0,1].
C7_ScoresInUnitIntervalWhenWeightsSumToAtMostOne ==
    (/\ sPc = "done"
     /\ sCall.op \in {"hybrid", "vector"}
     /\ (sCall.op = "hybrid" /\ sCall.fusion = "weighted") =>
            RLeq(RAdd(sCall.alpha, sCall.beta), One)) =>
        \A i \in DOMAIN sOut : /\ In01(sOut[i].similarity_score)
                               /\ In01(sOut[i].keyword_score)
                               /\ In01(sOut[i].final_score)

\* A weighted hybrid_search with the default weights has returned a record
\* that both legs scored 1, so that its final_score is 1.
C7_Witness ==
    /\ sPc = "done"
    /\ sCall.op = "hybrid"
    /\ sCall.fusion = "weighted"
    /\ <<sCall.alpha, sCall.beta>> = DEFAULT_WEIGHTS
    /\ \E i \in DOMAIN sOut : /\ REq(sOut[i].similarity_score, One)
                              /\ REq(sOut[i].keyword_score, One)
                              /\ REq(sOut[i].final_score, One)

\* C9 -- every result of vector_search has keyword_score = 0 and
\* final_score = similarity_score.
C9_VectorModeScores ==
    (sPc = "done" /\ sCall.op = "vector") =>
        \A i \in DOMAIN sOut : /\ REq(sOut[i].keyword_score, Zero)
                               /\ REq(sOut[i].final_score, sOut[i].similarity_score)

\* vector_search has returned two records, one of them with a similarity
\* above 0.
C9_Witness ==
    /\ sPc = "done"
    /\ sCall.op = "vector"
    /\ Len(sOut) = 2
    /\ \E i \in DOMAIN sOut : RLess(Zero, sOut[i].similarity_score)

\* C10 -- for the Vector Store search (called on its own and through
\* vector_search), the KeywordSearcher search and hybrid_search, every
\* returned record satisfies every active filter (department:
\* case-insensitive substring of the record's department; source:
\* case-insensitive exact match; both: AND), and no more than top_k records
\* are returned.
C10_FilteringSoundAndBounded ==
    (sPc = "done" /\ sCall.op \in {"search", "vector", "keyword", "hybrid"}) =>
        /\ Len(sOut) <= sCall.top_k
        /\ \A i \in DOMAIN sOut :
             /\ sCall.department # <<>> =>
                    IsSubstring(lower(sCall.department), lower(sOut[i].department))
             /\ sCall.source # <<>> =>
                    upper(sOut[i].source) = upper(sCall.source)

\* A search with both filters active has returned top_k = 2 records.
C10_Witness ==
    /\ sPc = "done"
    /\ sCall.op = "vector"
    /\ sCall.department = <<"c", "s">>
    /\ sCall.source = <<"c", "a", "b">>
    /\ sCall.top_k = 2
    /\ Len(sOut) = 2

\* ------------------------------------------------------ claims, part 3
\* Checked under Spec.

\* C11 -- index_is_stale returns true exactly when either persisted artifact
\* is missing or the corpus file's modification time is newer than that of
\* at least one artifact (the older of the two); otherwise false.  The
\* corpus file it stats exists whenever both artifacts do.
C11_StaleExactly ==
    /\ index_is_stale <=> \/ ~faissFile.exists
                          \/ ~metaFile.exists
                          \/ corpus.mtime > faissFile.mtime
                          \/ corpus.mtime > metaFile.mtime
    /\ (faissFile.exists /\ metaFile.exists) => corpus.exists

\* load_or_build has returned from a build with both artifacts on disk, the
\* corpus newer than faiss.index and older than metadata.pkl, and
\* index_is_stale() true at the return.
C11_Witness ==
    /\ plPc = "assign"
    /\ ret.path = "build"
    /\ ret.stale
    /\ faissFile.exists /\ metaFile.exists
    /\ faissFile.mtime < corpus.mtime
    /\ corpus.mtime < metaFile.mtime

\* C12, as stated -- once a snapshot is persisted (both artifacts on disk, no
\* load_or_build running), every rewrite of the corpus file makes
\* index_is_stale() true; and every load_or_build call entered with
\* index_is_stale() true that returns has built once, persisted once, and
\* returns with index_is_stale() false.
C12_TouchThenOneRebuild ==
    [][ /\ (/\ corpus' # corpus
            /\ faissFile.exists /\ metaFile.exists
            /\ plPc \notin LobPcs) => index_is_stale'
        /\ (/\ ret' # ret
            /\ ret'.path \in {"load", "build"}
            /\ ret'.staleAtEntry) => /\ ret'.path = "build"
                                     /\ ret'.builds = 1
                                     /\ ret'.saves = 1
                                     /\ ~ret'.stale ]_vars

\* C12, amended -- once a snapshot is persisted, a rewrite of the corpus file
\* that gives it a modification time later than that of the older artifact
\* makes index_is_stale() true; and every load_or_build call entered with
\* index_is_stale() true that returns has built once and persisted once, and
\* returns with index_is_stale() false if the corpus file was not rewritten
\* while it ran.
C12_NewerTouchThenOneRebuild ==
    [][ /\ (/\ corpus' # corpus
            /\ faissFile.exists /\ metaFile.exists
            /\ plPc \notin LobPcs
            /\ corpus'.mtime > faissFile.mtime \/ corpus'.mtime > metaFile.mtime)
               => index_is_stale'
        /\ (/\ ret' # ret
            /\ ret'.path \in {"load", "build"}
            /\ ret'.staleAtEntry) => /\ ret'.path = "build"
                                     /\ ret'.builds = 1
                                     /\ ret'.saves = 1
                                     /\ ret'.corpusUntouched => ~ret'.stale ]_vars

\* A load_or_build call that was not forced found a persisted pair made stale
\* by a later corpus, and has returned from one build with index_is_stale()
\* false.
C12_Witness ==
    /\ plPc = "assign"
    /\ ~force_rebuild
    /\ ret.path = "build"
    /\ ret.entryValid
    /\ ret.staleAtEntry
    /\ ret.corpusUntouched
    /\ ret.builds = 1 /\ ret.saves = 1
    /\ ~ret.stale
    /\ lobResult = <<2, 2>>

\* C13 -- load_index never returns an inconsistent pair: the index and the
\* ordering it returns were written by the same build (a pair from two
\* builds, whose sizes can disagree, is rejected instead of returned).
C13_LoadNeverInconsistent ==
    (plPc = "assign" /\ ret.path = "load") => lobResult[1] = lobResult[2]

\* C14 -- whenever either persisted artifact is absent, load_index fails with
\* FAISSIndexMissingError, returns nothing and reads neither artifact.
C14_MissingArtifactRaises ==
    [][ (/\ ret' # ret
         /\ ret'.path = "load_index"
         /\ ~faissFile.exists \/ ~metaFile.exists)
            => /\ ret'.at = "FAISSIndexMissingError"
               /\ ret'.read = {} ]_vars

\* load_index, called with faiss.index on disk and metadata.pkl absent, has
\* raised FAISSIndexMissingError.
C14_Witness ==
    /\ ret.path = "load_index"
    /\ ret.at = "FAISSIndexMissingError"
    /\ faissFile.exists
    /\ ~metaFile.exists
    /\ plPc = "none"

\* C15 -- a load_or_build call that finds a missing artifact, or a pair that
\* was not written by one build, does not return that pair and does not
\* raise from the load: it goes on to the rebuild (where it raises only for
\* a missing corpus file or a failing build).
C15_RecoversByRebuild ==
    (ret.path \in {"load", "build", "raised"} /\ ~ret.entryValid) =>
        /\ ret.path # "load"
        /\ ret.path = "raised" =>
              ret.at \in {"lob_read", "lob_build", "save_faiss", "save_meta"}

\* C16 -- a build that fails in build_index (the embedding fails) persists
\* nothing: when load_or_build raises from there, faiss.index and
\* metadata.pkl are what they were when the call was entered, and no
\* save_index has run.
C16_FailedEmbeddingPersistsNothing ==
    (ret.path = "raised" /\ ret.at = "lob_build") =>
        /\ ret.artifactsUntouched
        /\ ret.saves = 0

\* A rebuild() found a valid pair on disk, failed in build_index, and the
\* pair is still there.
C16_Witness ==
    /\ ret.path = "raised"
    /\ ret.at = "lob_build"
    /\ ret.entryValid
    /\ ret.artifactsUntouched
    /\ plCaller = "rebuild"
    /\ plPc = "ready"
    /\ ValidPair(faissFile, metaFile)

\* ------------------------------------------------------ claims, part 4
\* Checked under SpecSearch.

\* C17 -- weighted-sum fusion: the merged list holds each record of either
\* leg once; final_score = alpha * similarity_score + beta * keyword_score,
\* a leg without the record contributing 0; the list is in descending
\* final_score order, and records of equal final_score are in insertion
\* order (the vector leg's records in its rank order, then the keyword-only
\* records in the keyword leg's rank order).
C17_WeightedSum ==
    (sPc = "done" /\ sCall.op = "hybrid" /\ sCall.fusion = "weighted") =>
        LET sem == sLegs.sem
            kw == sLegs.kw
            SemAt(code) == {i \in DOMAIN sem : sem[i].course_code = code}
            KwAt(code) == {i \in DOMAIN kw : kw[i].course_code = code}
            SemScore(code) == IF SemAt(code) = {} THEN Zero
                              ELSE sem[CHOOSE i \in SemAt(code) : TRUE].similarity_score
            KwScore(code) == IF KwAt(code) = {} THEN Zero
                             ELSE kw[CHOOSE i \in KwAt(code) : TRUE].keyword_score
            Pos(code) == IF SemAt(code) # {} THEN CHOOSE i \in SemAt(code) : TRUE
                         ELSE Len(sem) + (CHOOSE i \in KwAt(code) : TRUE)
            codes == {sem[i].course_code : i \in DOMAIN sem}
                        \cup {kw[i].course_code : i \in DOMAIN kw}
        IN /\ {sMerged[m].course_code : m \in DOMAIN sMerged} = codes
           /\ Len(sMerged) = Cardinality(codes)
           /\ \A m \in DOMAIN sMerged :
                REq(sMerged[m].final_score,
                    RAdd(RMul(sCall.alpha, SemScore(sMerged[m].course_code)),
                         RMul(sCall.beta, KwScore(sMerged[m].course_code))))
           /\ \A i, j \in DOMAIN sMerged : i < j =>
                /\ RLeq(sMerged[j].final_score, sMerged[i].final_score)
                /\ REq(sMerged[j].final_score, sMerged[i].final_score) =>
                      Pos(sMerged[i].course_code) < Pos(sMerged[j].course_code)

\* A weighted fusion has merged a record of the vector leg and a
\* keyword-only record that have the same final_score above 0.
C17_Witness ==
    /\ sPc = "done"
    /\ sCall.op = "hybrid"
    /\ sCall.fusion = "weighted"
    /\ Len(sMerged) = 2
    /\ Len(sLegs.sem) = 1
    /\ Len(sLegs.kw) = 1
    /\ sLegs.sem[1].course_code = sMerged[1].course_code
    /\ sLegs.kw[1].course_code = sMerged[2].course_code
    /\ REq(sMerged[1].final_score, sMerged[2].final_score)
    /\ RLess(Zero, sMerged[1].final_score)

\* C18 -- RRF fusion: each record's raw score is the sum, over the legs that
\* contain it, of 1/(60 + its 1-based rank in the leg); final_score is the
\* raw score divided by the largest raw score of the merged records, so
\* every final_score is in (0,1], the first record's is 1, and the list is
\* in descending final_score order.
C18_ReciprocalRankFusion ==
    (sPc = "done" /\ sCall.op = "hybrid" /\ sCall.fusion = "rrf") =>
        LET sem == sLegs.sem
            kw == sLegs.kw
            Part(leg, code) ==
                LET at == {i \in DOMAIN leg : leg[i].course_code = code}
                IN IF at = {} THEN Zero ELSE <<1, 60 + (CHOOSE i \in at : TRUE)>>
            Raw(code) == RAdd(Part(sem, code), Part(kw, code))
            codes == {sem[i].course_code : i \in DOMAIN sem}
                        \cup {kw[i].course_code : i \in DOMAIN kw}
            best == CHOOSE c \in codes : \A d \in codes : RLeq(Raw(d), Raw(c))
        IN /\ {sMerged[m].course_code : m \in DOMAIN sMerged} = codes
           /\ Len(sMerged) = Cardinality(codes)
           /\ \A m \in DOMAIN sMerged :
                /\ REq(sMerged[m].final_score,
                       Reduced(<<Raw(sMerged[m].course_code)[1] * Raw(best)[2],
                                 Raw(sMerged[m].course_code)[2] * Raw(best)[1]>>))
                /\ RLess(Zero, sMerged[m].final_score)
                /\ RLeq(sMerged[m].final_score, One)
           /\ sMerged # <<>> => REq(sMerged[1].final_score, One)
           /\ \A i, j \in DOMAIN sMerged :
                i < j => RLeq(sMerged[j].final_score, sMerged[i].final_score)

\* An RRF fusion has merged a record that both legs rank first with a record
\* that only one leg holds, whose final_score is below 1.
C18_Witness ==
    /\ sPc = "done"
    /\ sCall.op = "hybrid"
    /\ sCall.fusion = "rrf"
    /\ Len(sMerged) = 2
    /\ sLegs.sem # <<>> /\ sLegs.kw # <<>>
    /\ sLegs.sem[1].course_code = sMerged[1].course_code
    /\ sLegs.kw[1].course_code = sMerged[1].course_code
    /\ REq(sMerged[1].final_score, One)
    /\ RLess(sMerged[2].final_score, One)

\* C19 -- every result of hybrid_search (either fusion) and of vector_search
\* carries similarity_score, keyword_score and final_score; the score of a
\* leg that did not produce the record is 0.
C19_AllThreeScoreFields ==
    (sPc = "done" /\ sCall.op \in {"hybrid", "vector"}) =>
        \A i \in DOMAIN sOut :
            /\ {"similarity_score", "keyword_score", "final_score"} \subseteq DOMAIN sOut[i]
            /\ sCall.op = "vector" => REq(sOut[i].keyword_score, Zero)
            /\ (/\ sCall.op = "hybrid"
                /\ \A j \in DOMAIN sLegs.sem :
                      sLegs.sem[j].course_code # sOut[i].course_code)
                   => REq(sOut[i].similarity_score, Zero)
            /\ (/\ sCall.op = "hybrid"
                /\ \A j \in DOMAIN sLegs.kw :
                      sLegs.kw[j].course_code # sOut[i].course_code)
                   => REq(sOut[i].keyword_score, Zero)

\* An RRF hybrid_search has returned a record that only the vector leg
\* produced and a record that only the keyword leg produced.
C19_Witness ==
    /\ sPc = "done"
    /\ sCall.op = "hybrid"
    /\ sCall.fusion = "rrf"
    /\ Len(sOut) = 2
    /\ Len(sLegs.sem) = 1
    /\ Len(sLegs.kw) = 1
    /\ sLegs.sem[1].course_code # sLegs.kw[1].course_code
    /\ \E i \in DOMAIN sOut : /\ sOut[i].course_code = sLegs.kw[1].course_code
                              /\ REq(sOut[i].similarity_score, Zero)
                              /\ RLess(Zero, sOut[i].keyword_score)

\* C20 -- vector_store.search examines the first min(3 * top_k, N) rows of
\* FAISS's descending order when a filter is active (min(top_k, N) without
\* one) and returns, in that order, exactly the first min(top_k, m) of them
\* that pass the filters, m being the number of rows of that pool that pass;
\* fewer than top_k results are a normal return, and no row outside the pool
\* is used to top up.
C20_SearchPool ==
    (sPc = "done" /\ sCall.op = "search") =>
        LET metadata == sCall.metadata
            ids == sCall.faiss.ids
            N == Len(metadata)
            active == sCall.department # <<>> \/ sCall.source # <<>>
            P == IF active THEN Min(3 * sCall.top_k, N) ELSE Min(sCall.top_k, N)
            Passes(rec) ==
                /\ sCall.department # <<>> =>
                      IsSubstring(lower(sCall.department), lower(rec.department))
                /\ sCall.source # <<>> => upper(rec.source) = upper(sCall.source)
            passing == {i \in 1..P : Passes(metadata[ids[i]])}
            Nth(k) == CHOOSE i \in passing : Cardinality({j \in passing : j <= i}) = k
        IN /\ Len(sOut) = Min(sCall.top_k, Cardinality(passing))
           /\ \A k \in DOMAIN sOut :
                sOut[k].course_code = metadata[ids[Nth(k)]].course_code
           /\ \A i, j \in DOMAIN sOut :
                i < j => RLeq(sOut[j].similarity_score, sOut[i].similarity_score)

\* A filtered search with top_k = 1 over 4 rows has returned nothing, while
\* the row FAISS ranked fourth, outside the pool of 3, passes the filter.
C20_Witness ==
    /\ sPc = "done"
    /\ sCall.op = "search"
    /\ sCall.top_k = 1
    /\ sCall.department = <<"c", "s">>
    /\ sCall.source = <<>>
    /\ Len(sCall.metadata) = 4
    /\ sOut = <<>>
    /\ sCall.metadata[sCall.faiss.ids[4]].department = <<"c", "S">>

\* ------------------------------------------------------ claims, part 5
\* C21: KeywordSearcher.search divides every raw score by the largest raw
\* score of the query over the whole corpus (by 1 when that is not
\* positive); it returns exactly the first top_k, in descending order of
\* the normalised score, of the rows whose normalised score is strictly
\* positive and that pass the filters, each a copy of its row with
\* keyword_score in (0, 1]; a query without tokens returns the empty list.
C21_KeywordNormalisedRanking ==
    (sPc = "done" /\ sCall.op = "keyword") =>
        LET raw == sCall.bm25.raw
            top == CHOOSE m \in {raw[i] : i \in DOMAIN raw} :
                      \A i \in DOMAIN raw : raw[i] <= m
            by == IF top > 0 THEN top ELSE 1
            eligible == {i \in DOMAIN raw :
                           /\ raw[i] > 0
                           /\ keyword_filter(sCall.records[i], sCall.department,
                                             sCall.source)}
            row(j) == sOut[j].course_code
        IN IF ~sCall.bm25.tokens THEN sOut = <<>>
           ELSE /\ Len(sOut) = Min(sCall.top_k, Cardinality(eligible))
                /\ \A j \in DOMAIN sOut :
                     /\ row(j) \in eligible
                     /\ Pop(sOut[j], "keyword_score") = sCall.records[row(j)]
                     /\ sOut[j].keyword_score[1] * by = raw[row(j)] * sOut[j].keyword_score[2]
                     /\ RLess(Zero, sOut[j].keyword_score)
                     /\ RLeq(sOut[j].keyword_score, One)
                     /\ \A k \in DOMAIN sOut :
                          /\ j < k => raw[row(k)] <= raw[row(j)]
                          /\ j # k => row(j) # row(k)
                     /\ \A i \in eligible :
                          (\A k \in DOMAIN sOut : row(k) # i) => raw[i] <= raw[row(j)]

\* C21 witness: three rows have a positive score and pass the filter, two
\* are returned, the second with a score below 1.
C21_Witness ==
    /\ sPc = "done" /\ sCall.op = "keyword" /\ sCall.bm25.tokens
    /\ sCall.department # <<>>
    /\ Cardinality({i \in DOMAIN sCall.records :
                      /\ sCall.bm25.raw[i] > 0
                      /\ keyword_filter(sCall.records[i], sCall.department,
                                        sCall.source)}) = 3
    /\ Len(sOut) = 2
    /\ REq(sOut[1].keyword_score, One)
    /\ RLess(sOut[2].keyword_score, One)

C23_RetrievalIndependentOfSynthesis ==
    (/\ aPc = "done"
     /\ \A i \in DOMAIN aRun.tried : aRun.tried[i].event # "text") =>
        /\ aResult.status = "returned"
        /\ aResult.dict.records = aCall.records

\* C23 witness: three backends were tried, one raised and none answered;
\* query returned the two retrieved records with the fallback message.
C23_Witness ==
    /\ aPc = "done" /\ aCall.generate /\ Len(aCall.records) = 2
    /\ Len(aRun.tried) = 3
    /\ \A i \in DOMAIN aRun.tried : aRun.tried[i].event \in {"absent", "raises", "not_ok"}
    /\ \E i \in DOMAIN aRun.tried : aRun.tried[i].event = "raises"
    /\ aResult.status = "returned"
    /\ aResult.dict.answer.kind = "fallback"
    /\ aResult.dict.records = aCall.records

\* C24: a query whose retrieval left no record never enters
\* generate_answer and tries no backend; it returns normally a dict with
\* exactly the keys question, answer, context and records, with an empty
\* records list (and "" as answer and as context).
C24_NoRecordsIsNoError ==
    (aPc # "idle" /\ aCall.records = <<>>) =>
        /\ aPc \in {"return", "done"}
        /\ ~aRun.generated
        /\ aRun.tried = <<>>
        /\ aPc = "done" =>
             /\ aResult.status = "returned"
             /\ DOMAIN aResult.dict = {"question", "answer", "context", "records"}
             /\ aResult.dict.records = <<>>
             /\ aResult.dict.answer = NoAnswer
             /\ aResult.dict.context = NoContext

\* C24 witness: a query with generate on and no record has returned.
C24_Witness ==
    /\ aPc = "done" /\ aCall.generate /\ aCall.records = <<>>
    /\ aResult.status = "returned"
    /\ aResult.dict.records = <<>>

\* C25: generate_answer tries Ollama, then HuggingFace, then OpenAI; it
\* tries no backend after one that gave text, its answer is the text of the
\* last backend tried when that one gave text, and it is the fallback
\* message only when all three were tried and none gave text.
C25_BackendsInPriorityOrder ==
    aRun.generated =>
        LET tried == aRun.tried
            order == <<"ollama", "huggingface", "openai">>
        IN /\ Len(tried) <= 3
           /\ \A i \in DOMAIN tried :
                /\ tried[i].backend = order[i]
                /\ i < Len(tried) => tried[i].event # "text"
           /\ aPc \in {"return", "done"} =>
                \/ /\ aRun.answer.kind = "text"
                   /\ tried # <<>>
                   /\ tried[Len(tried)].event = "text"
                   /\ aRun.answer.by = tried[Len(tried)].backend
                \/ /\ aRun.answer.kind = "fallback"
                   /\ Len(tried) = 3
                   /\ \A i \in DOMAIN tried : tried[i].event # "text"
           /\ aPc = "done" => aResult.dict.answer = aRun.answer

\* C25 witness: Ollama yielded no text, HuggingFace answered, OpenAI was not
\* tried.
C25_Witness ==
    /\ aPc = "done" /\ aRun.generated
    /\ Len(aRun.tried) = 2
    /\ aRun.tried[1] = [backend |-> "ollama", event |-> "empty"]
    /\ aRun.tried[2] = [backend |-> "huggingface", event |-> "text"]
    /\ aResult.dict.answer = [kind |-> "text", by |-> "huggingface"]

\* C30 (as stated): the context assemble_context returned is at most
\* _CHAR_BUDGET characters long, at most one of its blocks is truncated and
\* that one is the last, and its blocks are those of the first records of
\* the list, in order.
C30_ContextWithinBudget ==
    aRun.assembled > 0 =>
        LET blocks == aRun.context.blocks
        IN /\ aRun.context.len <= CHAR_BUDGET
           /\ \A i \in DOMAIN blocks :
                /\ blocks[i].row = aCall.records[i].course_code
                /\ blocks[i].truncated => i = Len(blocks)

\* ------------------------------------------------------ claims, part 7
\* C26 (as stated): whenever both artifacts are on disk, no load_or_build
\* is running and index_is_stale() is false, the artifacts hold what was
\* built from the content the corpus file has now.
C26_FreshMeansBuiltFromCorpus ==
    (/\ plPc \notin LobPcs
     /\ corpus.exists /\ faissFile.exists /\ metaFile.exists
     /\ ~index_is_stale) =>
        /\ faissFile.ver = corpus.ver
        /\ metaFile.ver = corpus.ver

\* C27: a load_or_build call that makes its test of line 124 with both
\* artifacts on disk, index_is_stale() false and force_rebuild off returns
\* the two artifacts as read, having written no file, not read the corpus
\* and not built; and an unforced call that follows a call that returned,
\* with the corpus file not written from the entry of the first to the
\* return of the second, returns the same pair, with at most one build in
\* the two calls together.
C27_IdempotentOnFreshSnapshot ==
    [][/\ (/\ plPc = "lob_check" /\ plPc' # "lob_check"
           /\ ~force_rebuild /\ faissFile.exists /\ metaFile.exists
           /\ ~index_is_stale) =>
              /\ ret'.path = "load"
              /\ ret'.read = {"faiss.index", "metadata.pkl"}
              /\ ret'.builds = 0 /\ ret'.saves = 0
              /\ ret'.pair = <<faissFile.ver, metaFile.ver>>
              /\ lobResult' = ret'.pair
              /\ lobRecords' = lobRecords
              /\ diskVars' = diskVars
       /\ ret'.second.is => (ret'.second.samePair /\ ret'.second.builds <= 1)]_vars

\* C27 witness: a call built and persisted, the next one loaded; both
\* returned the same pair.
C27_Witness ==
    /\ ret.path = "load" /\ ret.second.is
    /\ ret.second.samePair /\ ret.second.builds = 1
    /\ ret.pair = <<1, 1>>
    /\ ret.read = {"faiss.index", "metadata.pkl"}

\* C28: once _startup has failed to load the pipeline, _rag stays None and
\* no step of the service enters load_or_build again, whatever is written
\* to the corpus or to the artifacts; a /query with a blank q gets 400
\* whether or not the pipeline is loaded, one with a non-blank q gets 503
\* while _rag is None, and neither adds an entry to the query log.
C28_FailedStartupStaysUnavailable ==
    [][/\ (appPc = "up" /\ appRag = "None") =>
              /\ appPc' = "up" /\ appRag' = "None"
              /\ plPc' = "none" /\ memVars' = memVars /\ ret' = ret
       /\ appLast'.blank => (appLast'.status = "400" /\ ~appLast'.logged)
       /\ (appLast'.status # "none" /\ ~appLast'.blank /\ ~appLast'.ready) =>
              (appLast'.status = "503" /\ ~appLast'.logged)
       /\ appLast'.status \in {"400", "503"} => appLog' = appLog]_vars

\* C28 witness: the load failed at startup; the artifacts have since been
\* built and are fresh, and a non-blank /query is still answered with 503.
C28_Witness ==
    /\ appPc = "up" /\ appRag = "None"
    /\ ret.path = "raised"
    /\ faissFile.exists /\ metaFile.exists /\ ~index_is_stale
    /\ appLast.status = "503" /\ ~appLast.blank
    /\ appLog = 0

====
